---- MODULE Spec2Model ----
(***************************************************************************)
(* A model of the lazy sequence ("generator") validator of pydantic-core   *)
(* (src/src/validators/generator.rs): the compiled GeneratorValidator      *)
(* node, the ValidatorIterator handle it builds, the pull protocol of      *)
(* ValidatorIterator::__next__ and the InternalValidator ("Suspended       *)
(* Validation Context") that validates items after the creating call has   *)
(* returned; and of the nullable serializer                                *)
(* (src/src/serializers/type_serializers/nullable.rs), which answers for   *)
(* null itself and hands every other value to the serializer it wraps.     *)
(*                                                                         *)
(* Option<usize> is an integer with None == -1; Option<Exactness>,         *)
(* Option<bool> and the optional Python objects are strings with "None".   *)
(* Producers are finite scripts of items; a producer past the end of its   *)
(* script reports exhaustion on every further advance.  Producers that     *)
(* raise an error of their own (the `?` of generator.rs:126) are not       *)
(* modelled.                                                               *)
(***************************************************************************)
EXTENDS Integers, Sequences, FiniteSets, TLC

VARIABLES
    node,       \* the compiled GeneratorValidator (shared by all calls)
    state,      \* state[h]: the ValidationState of the call that validates producer h
    producer,   \* producer[h]: the producer handed to call h (external to the engine)
    vresult,    \* vresult[h]: "none" before validate, then "ok" or "err"
    handle,     \* handle[h]: the ValidatorIterator built by call h
    built,      \* built[h]: handle[h] as validate returned it (history)
    log,        \* log[h]: the outcomes of the pulls on handle[h], oldest first (history)
    iv,         \* a free-standing InternalValidator (as held by a function validator)
    ivlog,      \* the record of the last invocation of iv (history)
    ser         \* the last call made on a NullableSerializer, with what it returned

vars == <<node, state, producer, vresult, handle, built, log, iv, ivlog, ser>>

----------------------------------------------------------------------------
(* Bounds *)

MaxItems == 2

MaxPulls == MaxItems + 1

None == 0 - 1

Handles == {1, 2}

(* Items a producer can yield: the int 1, the str "1", a dict with one field *)
Items == {"i1", "s1", "d1"}

RECURSIVE SeqsUpTo(_, _)
SeqsUpTo(S, n) ==
    IF n = 0 THEN {<<>>}
    ELSE LET shorter == SeqsUpTo(S, n - 1)
         IN  shorter \cup {Append(s, x) : s \in {t \in shorter : Len(t) = n - 1}, x \in S}

Scripts == SeqsUpTo(Items, MaxItems)

MinLengths == {None} \cup (1 .. MaxItems)
MaxLengths == {None} \cup (0 .. (MaxItems - 1))

----------------------------------------------------------------------------
(* Exactness and the validation state                                      *)

ExactnessRank(e) ==
    CASE e = "Exact" -> 2
      [] e = "Lax" -> 1
      [] OTHER -> 0

floor_exactness(st, e) ==
    IF st.exactness = "None" THEN st
    ELSE IF ExactnessRank(e) < ExactnessRank(st.exactness)
         THEN [st EXCEPT !.exactness = e]
         ELSE st

add_fields_set(st, n) ==
    [st EXCEPT !.fields_set_count = (IF @ = None THEN 0 ELSE @) + n]

ValidationState_new(extra, recursion_guard, allow_partial) ==
    [ extra |-> extra,
      recursion_guard |-> recursion_guard,
      exactness |-> "None",
      fields_set_count |-> None,
      allow_partial |-> allow_partial,
      live |-> TRUE ]

MakeExtra(input_type, data, strict, from_attributes, field_name, context, self_instance, cache_str) ==
    [ input_type |-> input_type,
      data |-> data,
      strict |-> strict,
      from_attributes |-> from_attributes,
      field_name |-> field_name,
      context |-> context,
      self_instance |-> self_instance,
      cache_str |-> cache_str,
      by_alias |-> "None",
      by_name |-> "None" ]

----------------------------------------------------------------------------
(* Errors                                                                  *)

NoError ==
    [ type |-> "None", min_length |-> None, max_length |-> None,
      actual_length |-> None, input |-> "None" ]

TooLong(max_length, actual_length, input) ==
    [ type |-> "too_long", min_length |-> None, max_length |-> max_length,
      actual_length |-> actual_length, input |-> input ]

TooShort(min_length, actual_length, input) ==
    [ type |-> "too_short", min_length |-> min_length, max_length |-> None,
      actual_length |-> actual_length, input |-> input ]

ItemError(type, input) ==
    [ type |-> type, min_length |-> None, max_length |-> None,
      actual_length |-> None, input |-> input ]

(* ValidationError::from_val_error: the host-facing report *)
from_val_error(title, input_type, val_error, outer_location, hide_input_in_errors, validation_error_cause) ==
    [ title |-> title,
      input_type |-> input_type,
      error |-> val_error,
      loc |-> outer_location,
      hide_input |-> hide_input_in_errors,
      cause |-> validation_error_cause ]

NoReport == from_val_error("None", "None", NoError, <<>>, FALSE, FALSE)

----------------------------------------------------------------------------
(* The wrapped item node (CombinedValidator).  Two nodes stand for the      *)
(* catalogue: "int" accepts the int 1 exactly and the str "1" by lax        *)
(* coercion (never in strict mode); "model" accepts a dict and counts the   *)
(* field it populated.  A node leaves the recursion guard as it found it.   *)

ItemNodes == {"int", "model"}

CombinedValidator_get_name(v) == v

CombinedValidator_validate(v, input, st) ==
    CASE v = "int" /\ input = "i1" ->
            [ok |-> TRUE, value |-> "i1", error |-> NoError, state |-> floor_exactness(st, "Exact")]
      [] v = "int" /\ input = "s1" /\ st.extra.strict # "true" ->
            [ok |-> TRUE, value |-> "i1", error |-> NoError, state |-> floor_exactness(st, "Lax")]
      [] v = "int" /\ input = "s1" /\ st.extra.strict = "true" ->
            [ok |-> FALSE, value |-> "None", error |-> ItemError("int_type", input), state |-> st]
      [] v = "int" /\ input \notin {"i1", "s1"} ->
            [ok |-> FALSE, value |-> "None", error |-> ItemError("int_type", input), state |-> st]
      [] v = "model" /\ input = "d1" ->
            [ok |-> TRUE, value |-> "m1", error |-> NoError, state |-> add_fields_set(st, 1)]
      [] OTHER ->
            [ok |-> FALSE, value |-> "None", error |-> ItemError("model_type", input), state |-> st]

(* Assignment-style revalidation of one field of a model: the field value   *)
(* is validated by the field's int node; no field count is produced.        *)
CombinedValidator_validate_assignment(v, model, field_name, field_value, st) ==
    CASE v = "model" /\ field_value = "i1" ->
            [ok |-> TRUE, value |-> "m1", error |-> NoError, state |-> floor_exactness(st, "Exact")]
      [] v = "model" /\ field_value = "s1" /\ st.extra.strict # "true" ->
            [ok |-> TRUE, value |-> "m1", error |-> NoError, state |-> floor_exactness(st, "Lax")]
      [] v = "model" ->
            [ok |-> FALSE, value |-> "None", error |-> ItemError("int_type", field_value), state |-> st]
      [] OTHER ->
            [ok |-> FALSE, value |-> "None", error |-> ItemError("no_such_attribute", field_value), state |-> st]

----------------------------------------------------------------------------
(* InternalValidator: the Suspended Validation Context                     *)

NoValidator ==
    [ some |-> FALSE, name |-> "None", validator |-> "None", data |-> "None",
      strict |-> "None", from_attributes |-> "None", context |-> "None",
      self_instance |-> "None", recursion_guard |-> 0, exactness |-> "None",
      fields_set_count |-> None, validation_mode |-> "None",
      hide_input_in_errors |-> FALSE, validation_error_cause |-> FALSE,
      cache_str |-> "None" ]

(* Faulty variant: the two error-formatting flags change places *)
InternalValidator_new_swapped_flags(name, validator, st, hide_input_in_errors, validation_error_cause) ==
    [ some |-> TRUE,
      name |-> name,
      validator |-> validator,
      data |-> st.extra.data,
      strict |-> st.extra.strict,
      from_attributes |-> st.extra.from_attributes,
      context |-> st.extra.context,
      self_instance |-> st.extra.self_instance,
      recursion_guard |-> st.recursion_guard,
      exactness |-> st.exactness,
      fields_set_count |-> st.fields_set_count,
      validation_mode |-> st.extra.input_type,
      hide_input_in_errors |-> validation_error_cause,
      validation_error_cause |-> hide_input_in_errors,
      cache_str |-> st.extra.cache_str ]

(* Faulty variant: guard and trackers start afresh instead of being copied *)
InternalValidator_new_fresh_trackers(name, validator, st, hide_input_in_errors, validation_error_cause) ==
    [ some |-> TRUE,
      name |-> name,
      validator |-> validator,
      data |-> st.extra.data,
      strict |-> st.extra.strict,
      from_attributes |-> st.extra.from_attributes,
      context |-> st.extra.context,
      self_instance |-> st.extra.self_instance,
      recursion_guard |-> 0,
      exactness |-> "None",
      fields_set_count |-> None,
      validation_mode |-> st.extra.input_type,
      hide_input_in_errors |-> hide_input_in_errors,
      validation_error_cause |-> validation_error_cause,
      cache_str |-> st.extra.cache_str ]

InternalValidator_new(name, validator, st, hide_input_in_errors, validation_error_cause) ==
    [ some |-> TRUE,
      name |-> name,
      validator |-> validator,
      data |-> st.extra.data,
      strict |-> st.extra.strict,
      from_attributes |-> st.extra.from_attributes,
      context |-> st.extra.context,
      self_instance |-> st.extra.self_instance,
      recursion_guard |-> st.recursion_guard,
      exactness |-> st.exactness,
      fields_set_count |-> st.fields_set_count,
      validation_mode |-> st.extra.input_type,
      hide_input_in_errors |-> hide_input_in_errors,
      validation_error_cause |-> validation_error_cause,
      cache_str |-> st.extra.cache_str ]

(* The result of one invocation: the context afterwards, Ok(value) or       *)
(* Err(report), and the validation state the invocation started from and    *)
(* ended with.                                                              *)
Invocation(self, ok, value, report, state0, state1) ==
    [ self |-> self, ok |-> ok, value |-> value, report |-> report,
      state0 |-> state0, state1 |-> state1 ]

(* Faulty variant: the state of an invocation allows partial results *)
InternalValidator_validate_partial(self, input, outer_location) ==
    LET extra == MakeExtra(self.validation_mode, self.data, self.strict, self.from_attributes,
                           "None", self.context, self.self_instance, self.cache_str)
        fresh == ValidationState_new(extra, self.recursion_guard, "on")
        state0 == [fresh EXCEPT !.exactness = self.exactness,
                                !.fields_set_count = self.fields_set_count]
        r == CombinedValidator_validate(self.validator, input, state0)
        report == IF r.ok THEN NoReport
                  ELSE from_val_error(self.name, "python", r.error, outer_location,
                                      self.hide_input_in_errors, self.validation_error_cause)
        self1 == [self EXCEPT !.recursion_guard = r.state.recursion_guard,
                              !.exactness = r.state.exactness,
                              !.fields_set_count = r.state.fields_set_count]
    IN  Invocation(self1, r.ok, r.value, report, state0, r.state)

InternalValidator_validate(self, input, outer_location) ==
    LET extra == MakeExtra(self.validation_mode, self.data, self.strict, self.from_attributes,
                           "None", self.context, self.self_instance, self.cache_str)
        fresh == ValidationState_new(extra, self.recursion_guard, "off")
        state0 == [fresh EXCEPT !.exactness = self.exactness,
                                !.fields_set_count = self.fields_set_count]
        r == CombinedValidator_validate(self.validator, input, state0)
        report == IF r.ok THEN NoReport
                  ELSE from_val_error(self.name, "python", r.error, outer_location,
                                      self.hide_input_in_errors, self.validation_error_cause)
        self1 == [self EXCEPT !.recursion_guard = r.state.recursion_guard,
                              !.exactness = r.state.exactness,
                              !.fields_set_count = r.state.fields_set_count]
    IN  Invocation(self1, r.ok, r.value, report, state0, r.state)

(* Faulty variant: the model assigned to is kept as the context's data *)
InternalValidator_validate_assignment_keeping_data(self, model, field_name, field_value, outer_location) ==
    LET extra == MakeExtra(self.validation_mode, self.data, self.strict, self.from_attributes,
                           field_name, self.context, self.self_instance, self.cache_str)
        fresh == ValidationState_new(extra, self.recursion_guard, "off")
        state0 == [fresh EXCEPT !.exactness = self.exactness]
        r == CombinedValidator_validate_assignment(self.validator, model, field_name, field_value, state0)
        report == IF r.ok THEN NoReport
                  ELSE from_val_error(self.name, "python", r.error, outer_location,
                                      self.hide_input_in_errors, self.validation_error_cause)
        self1 == [self EXCEPT !.recursion_guard = r.state.recursion_guard,
                              !.exactness = r.state.exactness,
                              !.data = model]
    IN  Invocation(self1, r.ok, r.value, report, state0, r.state)

InternalValidator_validate_assignment(self, model, field_name, field_value, outer_location) ==
    LET extra == MakeExtra(self.validation_mode, self.data, self.strict, self.from_attributes,
                           field_name, self.context, self.self_instance, self.cache_str)
        fresh == ValidationState_new(extra, self.recursion_guard, "off")
        state0 == [fresh EXCEPT !.exactness = self.exactness]
        r == CombinedValidator_validate_assignment(self.validator, model, field_name, field_value, state0)
        report == IF r.ok THEN NoReport
                  ELSE from_val_error(self.name, "python", r.error, outer_location,
                                      self.hide_input_in_errors, self.validation_error_cause)
        self1 == [self EXCEPT !.recursion_guard = r.state.recursion_guard,
                              !.exactness = r.state.exactness]
    IN  Invocation(self1, r.ok, r.value, report, state0, r.state)

----------------------------------------------------------------------------
(* GeneratorValidator: the compiled lazy-sequence node                      *)

GeneratorName(item_validator) ==
    CASE item_validator = "int" -> "generator[int]"
      [] item_validator = "model" -> "generator[model]"
      [] OTHER -> "generator[any]"

GeneratorValidator_build(schema, config) ==
    [ item_validator |-> schema.items_schema,
      min_length |-> schema.min_length,
      max_length |-> schema.max_length,
      name |-> GeneratorName(schema.items_schema),
      hide_input_in_errors |-> config.hide_input_in_errors,
      validation_error_cause |-> config.validation_error_cause ]

Schemas ==
    [ items_schema : {"None"} \cup ItemNodes, min_length : MinLengths, max_length : MaxLengths ]

Configs ==
    { [hide_input_in_errors |-> TRUE, validation_error_cause |-> FALSE],
      [hide_input_in_errors |-> FALSE, validation_error_cause |-> TRUE] }

(* The producer handed to validate: a script of items and the number of     *)
(* times it has been advanced; a non-iterable input has no script.          *)
Producer(script) == [iterable |-> TRUE, script |-> script, calls |-> 0]

NotIterable == [iterable |-> FALSE, script |-> <<>>, calls |-> 0]

NoHandle ==
    [ iterator |-> [index |-> 0],
      validator |-> NoValidator,
      min_length |-> None,
      max_length |-> None,
      hide_input_in_errors |-> FALSE,
      validation_error_cause |-> FALSE ]

(* Input::validate_iter: borrow the input as an iterator, positioned at 0   *)
validate_iter(input) ==
    IF input.iterable
    THEN [ok |-> TRUE, iterator |-> [index |-> 0], error |-> NoError]
    ELSE [ok |-> FALSE, iterator |-> [index |-> 0], error |-> ItemError("iterable_type", "input")]

(* Faulty variant: the flag is left as the call had it *)
disable_partial_forgotten(st) == st

(* "this validator does not yet support partial validation, disable it" *)
disable_partial(st) == [st EXCEPT !.allow_partial = "off"]

GeneratorValidator_validate(self, input, st) ==
    LET st1 == disable_partial(st)
        it == validate_iter(input)
        validator == IF self.item_validator # "None"
                     THEN InternalValidator_new("ValidatorIterator", self.item_validator, st1,
                                                self.hide_input_in_errors, self.validation_error_cause)
                     ELSE NoValidator
        v_iterator == [ iterator |-> it.iterator,
                        validator |-> validator,
                        min_length |-> self.min_length,
                        max_length |-> self.max_length,
                        hide_input_in_errors |-> self.hide_input_in_errors,
                        validation_error_cause |-> self.validation_error_cause ]
    IN  IF it.ok
        THEN [ok |-> TRUE, state |-> st1, input |-> input, handle |-> v_iterator, error |-> NoError]
        ELSE [ok |-> FALSE, state |-> st1, input |-> input, handle |-> NoHandle, error |-> it.error]

----------------------------------------------------------------------------
(* ValidatorIterator: the validated-producer handle                         *)

(* GenericIterator::next: advance the producer once; an item comes with its *)
(* 0-based position, and the position counter moves past it.                *)
GenericIterator_next(iter, prod) ==
    LET p1 == [prod EXCEPT !.calls = @ + 1]
    IN  IF p1.calls <= Len(prod.script)
        THEN [ iter |-> [iter EXCEPT !.index = @ + 1], prod |-> p1,
               some |-> TRUE, next |-> prod.script[p1.calls], index |-> iter.index ]
        ELSE [ iter |-> iter, prod |-> p1, some |-> FALSE, next |-> "None", index |-> None ]

GenericIterator_index(iter) == iter.index

(* Outcomes of a pull: Ok(Some(value)), Ok(None) and Err(report).  `got` is *)
(* the item the producer yielded in this pull and `invoked` whether the     *)
(* item validator ran, with the validation state it started from.           *)
Outcome(kind, value, report, got, invoked, state0) ==
    [ kind |-> kind, value |-> value, report |-> report,
      got |-> got, invoked |-> invoked, state0 |-> state0 ]

NoState == ValidationState_new(
    MakeExtra("None", "None", "None", "None", "None", "None", "None", "None"), 0, "None")

(* Faulty variant: the item at position max_length is still let through *)
too_long_exclusive(max_length, index) == max_length # None /\ index > max_length

(* The length checks of a pull *)
too_long(max_length, index) == max_length # None /\ index >= max_length

(* Faulty variant: a length equal to min_length counts as too short *)
too_short_inclusive(min_length, index) == min_length # None /\ index <= min_length

too_short(min_length, index) == min_length # None /\ index < min_length

(* Faulty variant: the raw item is coerced on the way out *)
into_pyobject_coerced(next) == IF next = "s1" THEN "i1" ELSE next

(* With no item validator the raw item is handed to the consumer *)
into_pyobject(next) == next

(* The macro next!, the same for a Python iterator and a JSON array *)
next_macro(slf, prod) ==
    LET min_length == slf.min_length
        max_length == slf.max_length
        hide_input_in_errors == slf.hide_input_in_errors
        validation_error_cause == slf.validation_error_cause
        n == GenericIterator_next(slf.iterator, prod)
        slf1 == [slf EXCEPT !.iterator = n.iter]
        inv == InternalValidator_validate(slf.validator, n.next, <<n.index>>)
    IN  IF n.some
        THEN IF slf.validator.some
             THEN IF too_long(max_length, n.index)
                  THEN [ slf |-> slf1, prod |-> n.prod,
                         out |-> Outcome("error", "None",
                                    from_val_error("ValidatorIterator", "python",
                                        TooLong(max_length, None, "iter"), <<>>,
                                        hide_input_in_errors, validation_error_cause),
                                    n.next, FALSE, NoState) ]
                  ELSE [ slf |-> [slf1 EXCEPT !.validator = inv.self], prod |-> n.prod,
                         out |-> Outcome(IF inv.ok THEN "item" ELSE "error", inv.value,
                                         inv.report, n.next, TRUE, inv.state0) ]
             ELSE [ slf |-> slf1, prod |-> n.prod,
                    out |-> Outcome("item", into_pyobject(n.next), NoReport, n.next, FALSE, NoState) ]
        ELSE IF too_short(min_length, GenericIterator_index(n.iter))
             THEN [ slf |-> slf1, prod |-> n.prod,
                    out |-> Outcome("error", "None",
                               from_val_error("ValidatorIterator", "python",
                                   TooShort(min_length, GenericIterator_index(n.iter), "iter"), <<>>,
                                   hide_input_in_errors, validation_error_cause),
                               "None", FALSE, NoState) ]
             ELSE [ slf |-> slf1, prod |-> n.prod,
                    out |-> Outcome("stop", "None", NoReport, "None", FALSE, NoState) ]

(* Faulty variant: an item that fails validation is skipped and the next taken *)
next_macro_skipping(slf, prod) ==
    LET r == next_macro(slf, prod)
    IN  IF r.out.kind = "error" /\ r.out.invoked THEN next_macro(r.slf, r.prod) ELSE r

(* Faulty variant: a pull on an exhausted producer is counted as well *)
next_macro_counting_exhaustion(slf, prod) ==
    LET r == next_macro(slf, prod)
    IN  IF r.out.got = "None" THEN [r EXCEPT !.slf.iterator.index = @ + 1] ELSE r

(* Faulty variant: a pull that fails closes the producer *)
next_macro_closing(slf, prod) ==
    LET r == next_macro(slf, prod)
    IN  IF r.out.kind = "error" THEN [r EXCEPT !.prod.calls = Len(r.prod.script)] ELSE r

ValidatorIterator_next(slf, prod) == next_macro(slf, prod)

(* Faulty variant: the counter is reported one-based *)
ValidatorIterator_index_one_based(slf) == GenericIterator_index(slf.iterator) + 1

ValidatorIterator_index(slf) == GenericIterator_index(slf.iterator)

----------------------------------------------------------------------------
(* The nullable serializer (serializers/type_serializers/nullable.rs)       *)

(* Values handed to a serializer: the null sentinel, an object that merely  *)
(* matches the sentinel's type as a subclass would, and ordinary values     *)
SerValues == {"none", "none_like", "i1", "s1", "d1"}

(* ObTypeLookup::is_type: an exact match, a subclass match, or no match *)
ObTypeLookup_is_type(ob_type_lookup, value, ob_type) ==
    IF ob_type # "None" THEN "False"
    ELSE IF value = "none" THEN "Exact"
    ELSE IF value = "none_like" THEN "Subclass"
    ELSE "False"

SerModes == {"python", "json"}

SerExtra(mode) == [mode |-> mode, ob_type_lookup |-> "lookup"]

Filters == {"None", "f"}

SerOk(rendered) == [ok |-> TRUE, value |-> rendered, error |-> "None"]

SerErr(error) == [ok |-> FALSE, value |-> <<>>, error |-> error]

(* The native null of the host and of the wire format, the null key literal *)
PyNone == <<"None">>

serialize_none == <<"null">>

none_json_key == <<"None">>

(* The errors and results that do not depend on the call *)
UnexpectedValue == SerErr("unexpected_value")

SerializationError == SerErr("serialization_error")

InvalidKey == SerErr("invalid_key")

NoneKey == SerOk(none_json_key)

(* The inner node: some other serializer of the catalogue. What it returns  *)
(* depends on every argument it is given; some values it cannot serialize.  *)
InnerSerializers == {"int", "str", "model"}

CombinedSerializer_accepts(s, value) ==
    \/ s = "int" /\ value \in {"i1", "none_like"}
    \/ s = "str" /\ value \in {"s1", "i1"}
    \/ s = "model" /\ value \in {"d1", "none"}

CombinedSerializer_to_python(s, value, include, exclude, extra) ==
    IF CombinedSerializer_accepts(s, value)
    THEN SerOk(<<"py", s, value, include, exclude, extra.mode>>)
    ELSE UnexpectedValue

CombinedSerializer_serde_serialize(s, value, include, exclude, extra) ==
    IF CombinedSerializer_accepts(s, value)
    THEN SerOk(<<"wire", s, value, include, exclude, extra.mode>>)
    ELSE SerializationError

CombinedSerializer_json_key(s, key, extra) ==
    IF CombinedSerializer_accepts(s, key) /\ s # "model"
    THEN SerOk(<<"keyed", s, key, extra.mode>>)
    ELSE InvalidKey

CombinedSerializer_retry_with_lax_check(s) == s = "model"

infer_json_key_known(ob_type, key, extra) ==
    IF ob_type = "None" THEN NoneKey ELSE InvalidKey

(* What a call returns together with the calls it made on the inner node *)
SerReturn(result, inner) == [result |-> result, inner |-> inner]

(* What the calls that never reach the inner node return *)
ReturnedPyNone == SerReturn(SerOk(PyNone), <<>>)

ReturnedNull == SerReturn(SerOk(serialize_none), <<>>)

ReturnedNoneKey == SerReturn(NoneKey, <<>>)

NullableSerializer_build(serializer) == [serializer |-> serializer]

EXPECTED_TYPE == "nullable"

(* Faulty variant: a subclass match is taken for null as well *)
NullableSerializer_to_python_loose(self, value, include, exclude, extra) ==
    IF ObTypeLookup_is_type(extra.ob_type_lookup, value, "None") \in {"Exact", "Subclass"}
    THEN ReturnedPyNone
    ELSE SerReturn(CombinedSerializer_to_python(self.serializer, value, include, exclude, extra),
                   << <<"to_python", self.serializer, value, include, exclude, extra>> >>)

NullableSerializer_to_python(self, value, include, exclude, extra) ==
    IF ObTypeLookup_is_type(extra.ob_type_lookup, value, "None") = "Exact"
    THEN ReturnedPyNone
    ELSE SerReturn(CombinedSerializer_to_python(self.serializer, value, include, exclude, extra),
                   << <<"to_python", self.serializer, value, include, exclude, extra>> >>)

(* Faulty variant: the key of a null is asked of the inner node *)
NullableSerializer_json_key_delegating(self, key, extra) ==
    SerReturn(CombinedSerializer_json_key(self.serializer, key, extra),
              << <<"json_key", self.serializer, key, "None", "None", extra>> >>)

NullableSerializer_json_key(self, key, extra) ==
    IF ObTypeLookup_is_type(extra.ob_type_lookup, key, "None") = "Exact"
    THEN SerReturn(infer_json_key_known("None", key, extra), <<>>)
    ELSE SerReturn(CombinedSerializer_json_key(self.serializer, key, extra),
                   << <<"json_key", self.serializer, key, "None", "None", extra>> >>)

NullableSerializer_serde_serialize(self, value, include, exclude, extra) ==
    IF ObTypeLookup_is_type(extra.ob_type_lookup, value, "None") = "Exact"
    THEN ReturnedNull
    ELSE SerReturn(CombinedSerializer_serde_serialize(self.serializer, value, include, exclude, extra),
                   << <<"serde_serialize", self.serializer, value, include, exclude, extra>> >>)

NullableSerializer_get_name(self) == EXPECTED_TYPE

NullableSerializer_retry_with_lax_check(self) ==
    SerReturn(CombinedSerializer_retry_with_lax_check(self.serializer),
              << <<"retry_with_lax_check", self.serializer, "None", "None", "None", "None">> >>)

----------------------------------------------------------------------------
(* The state machine                                                        *)

Nodes == {GeneratorValidator_build(schema, config) : schema \in Schemas, config \in Configs}

(* The validation states a call can enter the generator node with *)
Extras(stricts) ==
    { MakeExtra("python", "data", strict, "None", "None", "ctx", "None", "all") : strict \in stricts }

(* Exactness and field count are unset outside a union, set inside one *)
Trackers == {<<"None", None>>, <<"Exact", 1>>}

CallStates(stricts, partials) ==
    { [ValidationState_new(extra, 1, partial) EXCEPT !.exactness = t[1], !.fields_set_count = t[2]] :
        extra \in Extras(stricts), partial \in partials, t \in Trackers }

NoCall == [NoState EXCEPT !.live = FALSE]

NoBuilt == [entered |-> NoCall, handle |-> NoHandle]

NoSerCall == [op |-> "None", self |-> "None", name |-> "None", value |-> "None", include |-> "None",
              exclude |-> "None", extra |-> "None", out |-> "None"]

NoInvocation == [n |-> 0, kind |-> "None", before |-> NoValidator,
                 inv |-> Invocation(NoValidator, FALSE, "None", NoReport, NoState, NoState)]

(* The state once the schema is compiled into node n, before any call *)
InitNode(n) ==
    /\ node = n
    /\ state = [h \in Handles |-> NoCall]
    /\ producer = [h \in Handles |-> NotIterable]
    /\ vresult = [h \in Handles |-> "none"]
    /\ handle = [h \in Handles |-> NoHandle]
    /\ built = [h \in Handles |-> NoBuilt]
    /\ log = [h \in Handles |-> <<>>]
    /\ iv = NoValidator
    /\ ivlog = NoInvocation
    /\ ser = NoSerCall

Init == \E n \in Nodes : InitNode(n)

(* A top-level call enters the generator node with state st and input *)
Validate(h, st, input) ==
    /\ vresult[h] = "none"
    /\ LET r == GeneratorValidator_validate(node, input, st)
       IN  /\ state' = [state EXCEPT ![h] = r.state]
           /\ producer' = [producer EXCEPT ![h] = r.input]
           /\ vresult' = [vresult EXCEPT ![h] = IF r.ok THEN "ok" ELSE "err"]
           /\ handle' = [handle EXCEPT ![h] = r.handle]
           /\ built' = [built EXCEPT ![h] = [entered |-> st, handle |-> r.handle]]
    /\ UNCHANGED <<node, log, iv, ivlog, ser>>

(* Faulty variant: every handle counts on the position counter of the first one *)
slf_of_shared_iterator(handles, h) == [handles[h] EXCEPT !.iterator = handles[1].iterator]

(* Faulty variant: every handle works on the context of the first one *)
slf_of_shared_validator(handles, h) == [handles[h] EXCEPT !.validator = handles[1].validator]

(* The handle a pull on h works on: `slf`, borrowed mutably for the pull *)
slf_of(handles, h) == handles[h]

(* The consumer pulls once on handle h *)
Pull(h) ==
    /\ vresult[h] = "ok"
    /\ Len(log[h]) < MaxPulls
    /\ LET r == ValidatorIterator_next(slf_of(handle, h), producer[h])
       IN  /\ handle' = [handle EXCEPT ![h] = r.slf]
           /\ producer' = [producer EXCEPT ![h] = r.prod]
           /\ log' = [log EXCEPT ![h] = Append(@, r.out)]
    /\ UNCHANGED <<node, state, vresult, built, iv, ivlog, ser>>

(* After validate returned, the creating call goes on validating other     *)
(* parts of its input with its own state ...                               *)
OuterCallContinues(h) ==
    /\ vresult[h] # "none"
    /\ state[h].live
    /\ state[h].recursion_guard > 0
    /\ state' = [state EXCEPT ![h] =
                    [add_fields_set(floor_exactness(@, "Lax"), 1) EXCEPT !.recursion_guard = @ - 1]]
    /\ UNCHANGED <<node, producer, vresult, handle, built, log, iv, ivlog, ser>>

(* ... and returns, which discards its state *)
OuterCallReturns(h) ==
    /\ vresult[h] # "none"
    /\ state[h].live
    /\ state' = [state EXCEPT ![h] = NoCall]
    /\ UNCHANGED <<node, producer, vresult, handle, built, log, iv, ivlog, ser>>

Inputs == {Producer(script) : script \in Scripts} \cup {NotIterable}

Next ==
    \E h \in {1} :
        \/ \E st \in CallStates({"None", "true"}, {"off", "on"}), input \in Inputs : Validate(h, st, input)
        \/ Pull(h)
        \/ OuterCallContinues(h)
        \/ OuterCallReturns(h)

Spec == Init /\ [][Next]_vars

(* Two calls on the same compiled node, each with a producer of its own,    *)
(* their pulls interleaved in every order                                   *)
PairSchemas ==
    [ items_schema : {"None", "int"}, min_length : {1}, max_length : {None, 1} ]

PairNodes ==
    { GeneratorValidator_build(schema, [hide_input_in_errors |-> TRUE, validation_error_cause |-> FALSE]) :
        schema \in PairSchemas }

PairInputs == {Producer(script) : script \in SeqsUpTo({"i1", "s1"}, MaxItems)}

InitPair == \E n \in PairNodes : InitNode(n)

NextPair ==
    \E h \in Handles :
        \/ \E st \in CallStates({"None", "true"}, {"off"}), input \in PairInputs : Validate(h, st, input)
        \/ Pull(h)

SpecPair == InitPair /\ [][NextPair]_vars

(* A free-standing suspended context, created by a caller that keeps it for *)
(* later validation and for assignment-style revalidation of a field        *)
IVNew(v, st, config) ==
    /\ ~iv.some
    /\ iv' = InternalValidator_new("ValidatorCallable", v, st,
                                   config.hide_input_in_errors, config.validation_error_cause)
    /\ UNCHANGED <<node, state, producer, vresult, handle, built, log, ivlog, ser>>

IVValidate(input) ==
    /\ iv.some
    /\ ivlog.n < MaxPulls
    /\ LET inv == InternalValidator_validate(iv, input, <<>>)
       IN  /\ iv' = inv.self
           /\ ivlog' = [n |-> ivlog.n + 1, kind |-> "validate", before |-> iv, inv |-> inv]
    /\ UNCHANGED <<node, state, producer, vresult, handle, built, log, ser>>

IVValidateAssignment(field_value) ==
    /\ iv.some
    /\ ivlog.n < MaxPulls
    /\ LET inv == InternalValidator_validate_assignment(iv, "m1", "f", field_value, <<>>)
       IN  /\ iv' = inv.self
           /\ ivlog' = [n |-> ivlog.n + 1, kind |-> "validate_assignment", before |-> iv, inv |-> inv]
    /\ UNCHANGED <<node, state, producer, vresult, handle, built, log, ser>>

NextIV ==
    \/ \E v \in ItemNodes, st \in CallStates({"None", "true"}, {"off", "on"}), config \in Configs :
            IVNew(v, st, config)
    \/ \E input \in Items : IVValidate(input)
    \/ \E field_value \in Items : IVValidateAssignment(field_value)

SpecIV == Init /\ [][NextIV]_vars

(* A handle and a free-standing context side by side: the context is        *)
(* invoked by pulls (validate) and by its holder (validate, and             *)
(* validate_assignment, which a handle never calls)                         *)
NextCtx ==
    \/ \E st \in CallStates({"None", "true"}, {"on"}), input \in PairInputs : Validate(1, st, input)
    \/ Pull(1)
    \/ \E st \in CallStates({"None"}, {"off", "on"}), config \in Configs : IVNew("model", st, config)
    \/ \E input \in Items : IVValidate(input)
    \/ \E field_value \in Items : IVValidateAssignment(field_value)

SpecCtx == InitPair /\ [][NextCtx]_vars

(* Calls on a nullable serializer; each call is independent of the others *)
SerCall(op, self, value, include, exclude, extra, out) ==
    [op |-> op, self |-> self, name |-> NullableSerializer_get_name(self), value |-> value,
     include |-> include, exclude |-> exclude, extra |-> extra, out |-> out]

ToPython(s, value, include, exclude, mode) ==
    /\ LET self == NullableSerializer_build(s)
           extra == SerExtra(mode)
       IN  ser' = SerCall("to_python", self, value, include, exclude, extra,
                          NullableSerializer_to_python(self, value, include, exclude, extra))
    /\ UNCHANGED <<node, state, producer, vresult, handle, built, log, iv, ivlog>>

SerdeSerialize(s, value, include, exclude, mode) ==
    /\ LET self == NullableSerializer_build(s)
           extra == SerExtra(mode)
       IN  ser' = SerCall("serde_serialize", self, value, include, exclude, extra,
                          NullableSerializer_serde_serialize(self, value, include, exclude, extra))
    /\ UNCHANGED <<node, state, producer, vresult, handle, built, log, iv, ivlog>>

JsonKey(s, key, mode) ==
    /\ LET self == NullableSerializer_build(s)
           extra == SerExtra(mode)
       IN  ser' = SerCall("json_key", self, key, "None", "None", extra,
                          NullableSerializer_json_key(self, key, extra))
    /\ UNCHANGED <<node, state, producer, vresult, handle, built, log, iv, ivlog>>

RetryWithLaxCheck(s) ==
    /\ LET self == NullableSerializer_build(s)
       IN  ser' = SerCall("retry_with_lax_check", self, "None", "None", "None", "None",
                          NullableSerializer_retry_with_lax_check(self))
    /\ UNCHANGED <<node, state, producer, vresult, handle, built, log, iv, ivlog>>

NextSer ==
    \E s \in InnerSerializers :
        \/ \E value \in SerValues, include \in Filters, exclude \in Filters, mode \in SerModes :
                \/ ToPython(s, value, include, exclude, mode)
                \/ SerdeSerialize(s, value, include, exclude, mode)
        \/ \E key \in SerValues, mode \in SerModes : JsonKey(s, key, mode)
        \/ RetryWithLaxCheck(s)

SpecSer == InitPair /\ [][NextSer]_vars

----------------------------------------------------------------------------
(* What the log of a handle says                                            *)

(* Pull k of handle h received an item from the producer / found it exhausted *)
GotItem(h, k) == log[h][k].got # "None"

Exhausted(h, k) == log[h][k].got = "None"

(* The 0-based position of the item of pull k: the items produced before it *)
Produced(h, k) == Cardinality({j \in 1 .. (k - 1) : GotItem(h, j)})

(* The items successfully yielded to the consumer before pull k *)
Yielded(h, k) == Cardinality({j \in 1 .. (k - 1) : log[h][j].kind = "item"})

Pulls(h) == 1 .. Len(log[h])

IsTooLong(o, max_length) ==
    /\ o.kind = "error"
    /\ o.report.error.type = "too_long"
    /\ o.report.error.max_length = max_length
    /\ o.report.error.actual_length = None

IsTooShort(o, min_length, actual_length) ==
    /\ o.kind = "error"
    /\ o.report.error.type = "too_short"
    /\ o.report.error.min_length = min_length
    /\ o.report.error.actual_length = actual_length

IsItemError(o) ==
    /\ o.kind = "error"
    /\ o.report.error.type \notin {"too_long", "too_short"}

----------------------------------------------------------------------------
(* C1: every pull in which the producer yields an item at a position at or  *)
(* beyond a configured max_length fails with TooLong carrying max_length    *)
(* and no actual_length, with or without an item schema.                    *)
C1_TooLongAtMax ==
    \A h \in Handles : \A k \in Pulls(h) :
        (GotItem(h, k) /\ node.max_length # None /\ Produced(h, k) >= node.max_length)
            => IsTooLong(log[h][k], node.max_length)

(* C2 as stated: on exhaustion, TooShort exactly when the count of items    *)
(* successfully yielded to the consumer is below min_length, with that      *)
(* count as actual_length; end-of-sequence otherwise.                       *)
C2_TooShortByYielded ==
    \A h \in Handles : \A k \in Pulls(h) :
        Exhausted(h, k) =>
            IF node.min_length # None /\ Yielded(h, k) < node.min_length
            THEN IsTooShort(log[h][k], node.min_length, Yielded(h, k))
            ELSE log[h][k].kind = "stop"

(* C2 amended: on exhaustion, TooShort exactly when the number of items the *)
(* producer has yielded (the position counter) is below min_length, with    *)
(* that number as actual_length; end-of-sequence otherwise.                 *)
C2_TooShortByProduced ==
    \A h \in Handles : \A k \in Pulls(h) :
        Exhausted(h, k) =>
            IF node.min_length # None /\ Produced(h, k) < node.min_length
            THEN IsTooShort(log[h][k], node.min_length, Produced(h, k))
            ELSE log[h][k].kind = "stop"

C2_Witness ==
    \E h \in Handles : \E k \in Pulls(h) :
        /\ Exhausted(h, k)
        /\ IsTooShort(log[h][k], node.min_length, Produced(h, k))
        /\ Yielded(h, k) < Produced(h, k)

(* C3 as stated: the position counter equals the number of items            *)
(* successfully yielded to the consumer, in every reachable state.          *)
C3_IndexIsYielded ==
    \A h \in Handles :
        ValidatorIterator_index(handle[h]) = Yielded(h, Len(log[h]) + 1)

(* C3 amended: the position counter equals the number of items the producer *)
(* has handed to the engine, yielded to the consumer or not, in every       *)
(* reachable state, and is 0 before the first pull.                         *)
C3_IndexIsProduced ==
    \A h \in Handles :
        ValidatorIterator_index(handle[h]) = Produced(h, Len(log[h]) + 1)

C3_Witness ==
    \E h \in Handles :
        /\ Len(log[h]) = MaxPulls
        /\ ValidatorIterator_index(handle[h]) > Yielded(h, Len(log[h]) + 1)
        /\ Yielded(h, Len(log[h]) + 1) > 0

(* C4: validate advances the producer zero times and every pull advances   *)
(* it exactly once, whatever the outcome: after validate and k pulls the    *)
(* producer has been advanced exactly k times.                              *)
C4_OneAdvancePerPull ==
    \A h \in Handles : producer[h].calls = Len(log[h])

C4_Witness ==
    \E h \in Handles :
        /\ producer[h].calls = MaxPulls
        /\ \E k \in Pulls(h) : log[h][k].kind = "item"
        /\ \E k \in Pulls(h) : IsItemError(log[h][k])
        /\ \E k \in Pulls(h) : Exhausted(h, k)

(* C5: with max_length = m the producer never yields more than m + 1 items  *)
(* to the engine, however long the consumer keeps pulling.                  *)
C5_AtMostOnePastMax ==
    \A h \in Handles :
        node.max_length # None => Produced(h, Len(log[h]) + 1) <= node.max_length + 1

(* C6: with no item schema, every item the producer yields within the       *)
(* length bounds is returned unchanged and in producer order (pull k        *)
(* returns the producer's k-th item), and a producer of n items with        *)
(* min_length <= n <= max_length ends with end-of-sequence.                 *)
C6_RawItemsInOrder ==
    node.item_validator = "None" =>
        \A h \in Handles : \A k \in Pulls(h) :
            LET n == Len(producer[h].script)
            IN  /\ (k <= n /\ (node.max_length = None \/ k - 1 < node.max_length))
                      => (log[h][k].kind = "item" /\ log[h][k].value = producer[h].script[k])
                /\ (k > n /\ (node.min_length = None \/ node.min_length <= n)
                          /\ (node.max_length = None \/ n <= node.max_length))
                      => log[h][k].kind = "stop"

C6_Witness ==
    \E h \in Handles :
        /\ node.item_validator = "None"
        /\ node.min_length # None
        /\ node.max_length # None
        /\ Len(log[h]) = 2
        /\ log[h][1].kind = "item"
        /\ log[h][1].value = "s1"
        /\ log[h][2].kind = "stop"

(* C7: validate sets the call's partial-validation flag to off whatever it  *)
(* was before and whether validate succeeds or fails, and it fails only     *)
(* when the input cannot be borrowed as an iterator.                        *)
C7_PartialForcedOff ==
    \A h \in Handles :
        /\ (vresult[h] # "none" /\ state[h].live) => state[h].allow_partial = "off"
        /\ vresult[h] = "err" => ~producer[h].iterable
        /\ vresult[h] = "ok" => producer[h].iterable

C7_Witness ==
    \E h \in Handles :
        /\ vresult[h] = "err"
        /\ built[h].entered.allow_partial = "on"
        /\ state[h].live
        /\ state[h].allow_partial = "off"

----------------------------------------------------------------------------
(* C8: after every invocation of the suspended context, validate and        *)
(* validate_assignment alike, the exactness and the field count the         *)
(* invocation ended with are folded back into the context, and the          *)
(* invocation started from the exactness and field count of the context.    *)
C8_TrackersFoldedBack ==
    ivlog.n > 0 =>
        /\ ivlog.inv.state0.exactness = ivlog.before.exactness
        /\ ivlog.inv.state0.fields_set_count = ivlog.before.fields_set_count
        /\ iv.exactness = ivlog.inv.state1.exactness
        /\ iv.fields_set_count = ivlog.inv.state1.fields_set_count

(* The pulls of handle h, run on the handle as validate built it and on a   *)
(* fresh copy of its producer, with nothing else in the world               *)
RECURSIVE RunAlone(_, _, _)
RunAlone(slf, prod, k) ==
    IF k = 0 THEN [slf |-> slf, prod |-> prod, log |-> <<>>]
    ELSE LET p == RunAlone(slf, prod, k - 1)
             r == ValidatorIterator_next(p.slf, p.prod)
         IN  [slf |-> r.slf, prod |-> r.prod, log |-> Append(p.log, r.out)]

Alone(h) == RunAlone(built[h].handle, Producer(producer[h].script), Len(log[h]))

(* C9: the suspended context exists exactly when an item schema exists and  *)
(* is seeded with the creating call's recursion guard, exactness and field  *)
(* count; from then on pulls leave the creating call's state alone, and     *)
(* the context and every pull outcome are those of the handle as built,     *)
(* whatever has since happened to the creating call's state.                *)
C9_Seeded ==
    \A h \in Handles :
        vresult[h] = "ok" =>
            /\ built[h].handle.validator.some <=> node.item_validator # "None"
            /\ built[h].handle.validator.some =>
                  /\ built[h].handle.validator.recursion_guard = built[h].entered.recursion_guard
                  /\ built[h].handle.validator.exactness = built[h].entered.exactness
                  /\ built[h].handle.validator.fields_set_count = built[h].entered.fields_set_count
            /\ log[h] = Alone(h).log
            /\ handle[h] = Alone(h).slf

C9_Frame ==
    \A h \in Handles :
        /\ log'[h] # log[h] => state' = state
        /\ (vresult[h] # "none" /\ state'[h] # state[h]) => (handle' = handle /\ log' = log)

C9_ContextIndependent == [](C9_Seeded) /\ [][C9_Frame]_vars

C9_Witness ==
    \E h \in Handles : \E k \in Pulls(h) :
        /\ vresult[h] = "ok"
        /\ ~state[h].live
        /\ built[h].entered.exactness = "Exact"
        /\ log[h][k].kind = "item"
        /\ log[h][k].invoked
        /\ handle[h].validator.exactness = "Lax"

(* C10: two handles built from the same compiled node share no mutable      *)
(* state: under every interleaving of their pulls each handle's outcomes    *)
(* and position counter are those it produces when pulled alone, and the    *)
(* compiled node is never modified.                                         *)
C10_AsAlone ==
    \A h \in Handles :
        vresult[h] = "ok" =>
            /\ log[h] = Alone(h).log
            /\ ValidatorIterator_index(handle[h]) = ValidatorIterator_index(Alone(h).slf)

C10_NoSharedState == [](C10_AsAlone) /\ [][node' = node]_vars

C10_Witness ==
    /\ Len(log[1]) = MaxPulls
    /\ Len(log[2]) = MaxPulls
    /\ producer[1].script = producer[2].script
    /\ handle[1].validator.some
    /\ log[1] # log[2]
    /\ ValidatorIterator_index(handle[1]) > 0

----------------------------------------------------------------------------
----------------------------------------------------------------------------
(* C12: for a value that is exactly null, to_python and serde_serialize of  *)
(* the nullable serializer return the native null without calling the inner *)
(* serializer; for any other value, one that only matches null as a         *)
(* subclass included, they return exactly what the inner serializer returns *)
(* (value or error) for the same value, include, exclude and extra; and     *)
(* retry_with_lax_check returns the inner serializer's answer.              *)
C12_NullOrDelegate ==
    /\ ser.op = "to_python" =>
          IF ser.value = "none"
          THEN ser.out = ReturnedPyNone
          ELSE /\ ser.out.result = CombinedSerializer_to_python(ser.self.serializer, ser.value,
                                                                ser.include, ser.exclude, ser.extra)
               /\ Len(ser.out.inner) = 1
    /\ ser.op = "serde_serialize" =>
          IF ser.value = "none"
          THEN ser.out = ReturnedNull
          ELSE /\ ser.out.result = CombinedSerializer_serde_serialize(ser.self.serializer, ser.value,
                                                                      ser.include, ser.exclude, ser.extra)
               /\ Len(ser.out.inner) = 1
    /\ ser.op = "retry_with_lax_check" =>
          ser.out.result = CombinedSerializer_retry_with_lax_check(ser.self.serializer)

C12_Witness ==
    /\ ser.op = "to_python"
    /\ ser.value = "none_like"
    /\ ser.self.serializer = "int"
    /\ ser.out.result.ok
    /\ ser.out.result.value # PyNone
    /\ ser.exclude = "f"

(* C13: the key rendered for a key that is exactly null is the fixed null   *)
(* key literal, whatever the inner serializer is, and the inner serializer  *)
(* is not called; for any other key the result is exactly the inner         *)
(* serializer's json_key for that key and extra.                            *)
C13_NullKeyLiteral ==
    ser.op = "json_key" =>
        IF ser.value = "none"
        THEN ser.out = ReturnedNoneKey
        ELSE /\ ser.out.result = CombinedSerializer_json_key(ser.self.serializer, ser.value, ser.extra)
             /\ Len(ser.out.inner) = 1

C13_Witness ==
    /\ ser.op = "json_key"
    /\ ser.value = "none"
    /\ ser.self.serializer = "model"
    /\ ser.out.result.value = none_json_key
    /\ ~CombinedSerializer_json_key(ser.self.serializer, ser.value, ser.extra).ok

----------------------------------------------------------------------------
(* What a pull is classified as: an item and which, an error and which, or  *)
(* the end of the sequence                                                  *)
Classification(o) == <<o.kind, o.value, o.report.error>>

(* Handles 1 and 2 were both built, from producers of the same items *)
SameItems ==
    /\ vresult[1] = "ok"
    /\ vresult[2] = "ok"
    /\ producer[1].script = producer[2].script

(* Pull by pull, handles 1 and 2 are classified alike, and after as many    *)
(* pulls their position counters are equal                                  *)
SameClassification ==
    /\ \A k \in Pulls(1) \cap Pulls(2) : Classification(log[1][k]) = Classification(log[2][k])
    /\ Len(log[1]) = Len(log[2]) =>
          ValidatorIterator_index(handle[1]) = ValidatorIterator_index(handle[2])

(* C14 as stated: the same schema run against two fresh producers of the    *)
(* same items, with the same pulls, is classified the same at every pull.   *)
C14_SameSchemaSameOutcome == SameItems => SameClassification

(* C14 amended: ... provided the two validation calls that built the        *)
(* handles ran under the same settings (strictness and the other ambient    *)
(* parameters of the call).                                                 *)
C14_SameCallSameOutcome ==
    (SameItems /\ built[1].entered.extra = built[2].entered.extra) => SameClassification

C14_Witness ==
    /\ SameItems
    /\ built[1].entered.extra = built[2].entered.extra
    /\ built[1].entered.exactness # built[2].entered.exactness
    /\ Len(log[1]) = MaxPulls
    /\ Len(log[2]) = MaxPulls
    /\ IsItemError(log[1][1])
    /\ IsItemError(log[2][1])
    /\ IsTooLong(log[2][2], node.max_length)
    /\ log[1][3].kind = "stop"

----------------------------------------------------------------------------
(* C15: with an item schema, the max_length check comes before the item is  *)
(* validated. An item at position i >= max_length is not passed to the item *)
(* validator: the pull fails with TooLong and leaves the context (guard,    *)
(* exactness, field count) as it was. Every item at i < max_length, or at   *)
(* any position without max_length, is validated through the context, an    *)
(* error being located at exactly <<i>>, and on success the pull yields the *)
(* converted value.                                                         *)
C15_CheckedThenValidated ==
    \A h \in Handles : \A k \in Pulls(h) :
        (node.item_validator # "None" /\ GotItem(h, k)) =>
            LET o == log[h][k]
                i == Produced(h, k)
            IN  IF node.max_length # None /\ i >= node.max_length
                THEN /\ ~o.invoked
                     /\ IsTooLong(o, node.max_length)
                ELSE /\ o.invoked
                     /\ o.kind \in {"item", "error"}
                     /\ o.kind = "error" => IsItemError(o) /\ o.report.loc = <<i>>
                     /\ o.kind = "item" =>
                           LET r == CombinedValidator_validate(node.item_validator, o.got, o.state0)
                           IN  r.ok /\ o.value = r.value

C15_ContextUntouched ==
    \A h \in Handles :
        (/\ Len(log'[h]) = Len(log[h]) + 1
         /\ IsTooLong(log'[h][Len(log'[h])], node.max_length))
            => handle'[h].validator = handle[h].validator

C15_MaxBeforeValidation == [](C15_CheckedThenValidated) /\ [][C15_ContextUntouched]_vars

C15_Witness ==
    \E h \in Handles :
        /\ Len(log[h]) >= 2
        /\ log[h][1].kind = "item"
        /\ log[h][1].invoked
        /\ log[h][1].value # log[h][1].got
        /\ handle[h].validator.exactness # built[h].handle.validator.exactness
        /\ IsTooLong(log[h][2], node.max_length)
        /\ ~log[h][2].invoked

----------------------------------------------------------------------------
(* C16: a failed pull does not end the sequence. The pull after it advances *)
(* the producer again: while the producer has items it receives the next    *)
(* one and treats it by the usual rules (validated unless past max_length,  *)
(* yielded raw without an item schema). The position counter never          *)
(* decreases: a pull in which the producer yields an item adds exactly one, *)
(* whether or not the item is then yielded, and an exhausted pull adds      *)
(* nothing.                                                                 *)
C16_PullAfterFailure ==
    \A h \in Handles : \A k \in Pulls(h) :
        (k > 1 /\ log[h][k - 1].kind = "error") =>
            LET o == log[h][k]
            IN  IF k <= Len(producer[h].script)
                THEN /\ o.got = producer[h].script[k]
                     /\ Produced(h, k) = k - 1
                     /\ node.item_validator = "None" => (o.kind = "item" /\ o.value = o.got)
                     /\ (node.item_validator # "None" /\ ~IsTooLong(o, node.max_length)) => o.invoked
                ELSE Exhausted(h, k)

C16_CounterStep ==
    \A h \in Handles :
        /\ vresult[h] = "ok" =>
              ValidatorIterator_index(handle'[h]) >= ValidatorIterator_index(handle[h])
        /\ Len(log'[h]) = Len(log[h]) + 1 =>
              ValidatorIterator_index(handle'[h]) =
                  ValidatorIterator_index(handle[h])
                      + (IF log'[h][Len(log'[h])].got # "None" THEN 1 ELSE 0)
        /\ (vresult[h] = "ok" /\ log'[h] = log[h]) =>
              ValidatorIterator_index(handle'[h]) = ValidatorIterator_index(handle[h])

C16_NoStickyFailure == [](C16_PullAfterFailure) /\ [][C16_CounterStep]_vars

C16_Witness ==
    \E h \in Handles :
        /\ Len(log[h]) = MaxPulls
        /\ IsItemError(log[h][1])
        /\ log[h][2].kind = "item"
        /\ log[h][2].invoked
        /\ ValidatorIterator_index(handle[h]) = 2
        /\ Yielded(h, MaxPulls) = 1
        /\ Exhausted(h, MaxPulls)

----------------------------------------------------------------------------
(* C17: pulls on an exhausted producer are idempotent. Every pull after the *)
(* first exhausted one finds the producer exhausted too and has the same    *)
(* outcome (TooShort with the same min_length and actual_length, or the end *)
(* of the sequence), and an exhausted pull leaves the position counter and  *)
(* the context unchanged.                                                   *)
C17_SameOutcomeAgain ==
    \A h \in Handles : \A k \in Pulls(h) : \A j \in Pulls(h) :
        (Exhausted(h, k) /\ k < j) =>
            /\ Exhausted(h, j)
            /\ log[h][j] = log[h][k]
            /\ \/ log[h][k].kind = "stop"
               \/ IsTooShort(log[h][k], node.min_length, Produced(h, k))

C17_HandleUntouched ==
    \A h \in Handles :
        (/\ Len(log'[h]) = Len(log[h]) + 1
         /\ log'[h][Len(log'[h])].got = "None")
            => handle'[h] = handle[h]

C17_ExhaustedIdempotent == [](C17_SameOutcomeAgain) /\ [][C17_HandleUntouched]_vars

C17_Witness ==
    \E h \in Handles :
        /\ Len(log[h]) = MaxPulls
        /\ handle[h].validator.some
        /\ log[h][1].kind = "item"
        /\ IsTooShort(log[h][2], node.min_length, 1)
        /\ IsTooShort(log[h][MaxPulls], node.min_length, 1)

----------------------------------------------------------------------------
(* The ambient parameters a context owns *)
Ambient(v) ==
    << v.name, v.validator, v.data, v.strict, v.from_attributes, v.context, v.self_instance,
       v.validation_mode, v.cache_str, v.hide_input_in_errors, v.validation_error_cause >>

(* The configuration of a handle *)
HandleConfig(slf) ==
    << slf.min_length, slf.max_length, slf.hide_input_in_errors, slf.validation_error_cause >>

(* C18: no invocation of a context, validate or validate_assignment,        *)
(* changes the ambient parameters it owns (name, wrapped node, data,        *)
(* strict, from_attributes, context, self_instance, validation mode,        *)
(* cache_str, hide_input_in_errors, validation_error_cause); and no pull    *)
(* changes the handle's min_length, max_length or error options.            *)
C18_AmbientStep ==
    /\ iv.some => Ambient(iv') = Ambient(iv)
    /\ \A h \in Handles :
          vresult[h] = "ok" =>
              /\ HandleConfig(handle'[h]) = HandleConfig(handle[h])
              /\ handle'[h].validator.some = handle[h].validator.some
              /\ handle[h].validator.some =>
                    Ambient(handle'[h].validator) = Ambient(handle[h].validator)

C18_AsBuilt ==
    /\ ivlog.n > 0 => Ambient(ivlog.inv.self) = Ambient(ivlog.before)
    /\ \A h \in Handles :
          vresult[h] = "ok" =>
              HandleConfig(handle[h]) =
                  <<node.min_length, node.max_length, node.hide_input_in_errors, node.validation_error_cause>>

C18_AmbientFixed == [](C18_AsBuilt) /\ [][C18_AmbientStep]_vars

C18_Witness ==
    /\ ivlog.kind = "validate_assignment"
    /\ iv.exactness # ivlog.before.exactness
    /\ Ambient(iv) = Ambient(ivlog.before)
    /\ Len(log[1]) >= 2
    /\ handle[1].validator.some
    /\ handle[1].validator.exactness # built[1].handle.validator.exactness
    /\ HandleConfig(handle[1]) = HandleConfig(built[1].handle)

(* C19: every invocation of a context, validate and validate_assignment     *)
(* alike, runs the wrapped node on a validation state built for that        *)
(* invocation, with allow_partial off whatever the partial flag of the call *)
(* that created the context was, and with the context's own recursion       *)
(* guard, which the context holds again after the invocation.               *)
C19_FreshStatePerInvocation ==
    /\ ivlog.n > 0 =>
          /\ ivlog.inv.state0.allow_partial = "off"
          /\ ivlog.inv.state1.allow_partial = "off"
          /\ ivlog.inv.state0.recursion_guard = ivlog.before.recursion_guard
          /\ ivlog.inv.self.recursion_guard = ivlog.inv.state1.recursion_guard
          /\ iv = ivlog.inv.self
    /\ \A h \in Handles : \A k \in Pulls(h) :
          log[h][k].invoked =>
              /\ log[h][k].state0.allow_partial = "off"
              /\ log[h][k].state0.recursion_guard = built[h].handle.validator.recursion_guard
              /\ log[h][k].state0.recursion_guard = built[h].entered.recursion_guard

C19_Witness ==
    /\ built[1].entered.allow_partial = "on"
    /\ Len(log[1]) >= 2
    /\ log[1][1].invoked
    /\ log[1][2].invoked
    /\ log[1][2].state0.allow_partial = "off"
    /\ ivlog.kind = "validate_assignment"
    /\ ivlog.n >= 2
    /\ ivlog.inv.state0.allow_partial = "off"

====
